---- MODULE Spec2Model ----
(***************************************************************************)
(* TradingStrategy (main.py): the EMA9/EMA20/VWAP pullback rule for SPY.   *)
(*                                                                         *)
(* Exposure fractions are fixed-point integers in units of 1e-9, so that   *)
(* the 1e-9 "currently invested" threshold is 1 and the 0.10 stake is      *)
(* 100000000.  Prices and indicator values are tagged records so that      *)
(* None, NaN and +inf keep the behaviour Python gives them.                *)
(***************************************************************************)
EXTENDS Integers, Sequences, FiniteSets, TLC

VARIABLES self, data, svc, result, pc, memo, ledger

vars == <<self, data, svc, result, pc, memo, ledger>>

(* ---------------------------------------------------------------- bounds *)
\* finite prices and indicator values range over 1..MaxPrice
MaxPrice == 3

(* ------------------------------------------------------------- constants *)
MinBars == 50
Eps == 1
Stake == 100000000

(* ---------------------------------------------------- values and numbers *)
Num(p) == [t |-> "num", v |-> p]
NaN == [t |-> "nan", v |-> 0]
PosInf == [t |-> "inf", v |-> 1]
NegInf == [t |-> "inf", v |-> -1]
None == [t |-> "none", v |-> 0]
NoClose == [t |-> "missing", v |-> 0]

Finite == {Num(p) : p \in 1..MaxPrice}
Vals == Finite \cup {NaN, PosInf, NegInf, None}

\* isinstance(v, (int, float)): NaN and inf are floats
IsNumber(x) == x.t \in {"num", "nan", "inf"}

\* math.isfinite, which the source never calls
IsFinite(x) == x.t = "num"

\* position of a non-NaN float on the extended real line
Key(x) == IF x.t = "inf" THEN (IF x.v > 0 THEN MaxPrice + 1 ELSE 0) ELSE x.v

\* Python's a < b and a > b on floats: every comparison with NaN is False
Lt(a, b) == a.t # "nan" /\ b.t # "nan" /\ Key(a) < Key(b)
Gt(a, b) == Lt(b, a)

Abs(h) == IF h < 0 THEN -h ELSE h

(* ----------------------------------------------- indicator service values *)
ListOf(x) == [shape |-> "list", items |-> IF x = None THEN <<>> ELSE <<Num(1), x>>, v |-> None]
ScalarOf(x) == [shape |-> "scalar", items |-> <<>>, v |-> x]
RawOf(shape, x) == IF shape = "list" THEN ListOf(x) ELSE ScalarOf(x)

\* raw[-1] if isinstance(raw, list) and raw else raw if isinstance(raw, (int, float)) else None
Latest(raw) ==
    IF raw.shape = "list" /\ raw.items # <<>>
    THEN raw.items[Len(raw.items)]
    ELSE IF raw.shape = "scalar" /\ IsNumber(raw.v) THEN raw.v ELSE None

NoSvc == [raises |-> "none", ema9 |-> ScalarOf(None), ema20 |-> ScalarOf(None), vwap |-> ScalarOf(None)]

(* ------------------------------------------------------------- step input *)
NoWindow == [src |-> "absent", entry |-> "none", n |-> 0, close |-> NoClose]
NoHoldings == [present |-> FALSE, has |-> FALSE, v |-> 0]
EmptyStep == [ohlcv |-> NoWindow, holdings |-> NoHoldings]

\* the holdings part of a step input
HoldingsInputs ==
    {NoHoldings, [present |-> TRUE, has |-> FALSE, v |-> 0]}
    \cup {[present |-> TRUE, has |-> TRUE, v |-> h] : h \in {0, Eps, -Eps, Stake, -Stake, 15 * Stake}}

\* windows on which the sufficiency check fails or len() itself fails
ShortWindows ==
    {NoWindow,
     [src |-> "other", entry |-> "none", n |-> 0, close |-> NoClose],
     [src |-> "dict", entry |-> "none", n |-> 0, close |-> NoClose],
     [src |-> "dict", entry |-> "unsized", n |-> 0, close |-> NoClose]}
    \cup {[src |-> s, entry |-> "bars", n |-> k, close |-> IF k = 0 THEN NoClose ELSE Num(1)] :
            s \in {"dict", "list"}, k \in {0, MinBars - 1}}

\* windows with enough bars; the last bar has the given close
LongWindow(s, c) == [src |-> s, entry |-> "bars", n |-> MinBars, close |-> c]

(* ----------------------------------------------------------------- result *)
EmptyAlloc == [t \in {} |-> 0]
NoResult == [kind |-> "none", exc |-> "", alloc |-> EmptyAlloc]
Raise(e) == [kind |-> "raise", exc |-> e, alloc |-> EmptyAlloc]
Return(a) == [kind |-> "return", exc |-> "", alloc |-> a]

\* the platform's record of the instrument's exposure across steps
NoLedger == [holding |-> 0, prev |-> 0, longs |-> FALSE, repeat |-> FALSE]

NoMemo == [set |-> FALSE, other |-> FALSE, data |-> EmptyStep, svc |-> NoSvc, result |-> NoResult]

(* ------------------------------------------------------ TradingStrategy *)
Tracked == "SPY"

\* __init__: self.tickers = ["SPY"]
InitSelf == [tickers |-> <<Tracked>>]

\* the assets property
assets(slf) == slf.tickers

TickerSet(slf) == {slf.tickers[i] : i \in 1..Len(slf.tickers)}

\* data["holdings"] raises KeyError when the mapping is absent
HoldingsPresent(d) == d.holdings.present

\* data["holdings"].get(ticker, 0)
HoldingGet(d, ticker) ==
    IF ticker = Tracked /\ d.holdings.has THEN d.holdings.v ELSE 0

\* lines 39-50: the bars of one ticker, or None
ohlcv_of(slf, d, ticker) ==
    LET src == d.ohlcv
        none == [isNone |-> TRUE, sized |-> FALSE, n |-> 0, close |-> NoClose]
        bars == [isNone |-> FALSE, sized |-> src.entry = "bars", n |-> src.n, close |-> src.close]
    IN  IF src.src = "dict"
        THEN IF ticker = Tracked /\ src.entry # "none" THEN bars ELSE none
        ELSE IF src.src = "list" /\ Len(assets(slf)) = 1 THEN bars ELSE none

\* line 55: ohlcv is None or len(ohlcv) < 50; len() of an unsized object raises
insufficient(o) == o.isNone \/ o.n < MinBars

\* line 93: all(isinstance(v, (int, float)) for v in [...])
values_valid(e9, e20, vw, c) == IsNumber(e9) /\ IsNumber(e20) /\ IsNumber(vw) /\ IsNumber(c)

currently_invested_never(h) == FALSE

\* line 100
currently_invested(h) == Abs(h) > Eps

long_pullback_swapped(c, e9, e20) == Lt(c, e20) /\ Gt(c, e9)
short_pullback_swapped(c, e9, e20) == Gt(c, e20) /\ Lt(c, e9)
is_uptrend_condition_either(c, vw, e9, e20) == Gt(c, vw) \/ Gt(e9, e20)

\* lines 103-110
is_uptrend_condition(c, vw, e9, e20) == Gt(c, vw) /\ Gt(e9, e20)
is_downtrend_condition(c, vw, e9, e20) == Lt(c, vw) /\ Lt(e9, e20)
long_pullback(c, e9, e20) == Lt(c, e9) /\ Gt(c, e20)
short_pullback(c, e9, e20) == Gt(c, e9) /\ Lt(c, e20)

target_stake_overscaled(c, vw, e9, e20) ==
    IF is_uptrend_condition(c, vw, e9, e20) /\ long_pullback(c, e9, e20) THEN 20 * Stake
    ELSE IF is_downtrend_condition(c, vw, e9, e20) /\ short_pullback(c, e9, e20) THEN -20 * Stake
    ELSE 0

\* lines 114-122
target_stake(c, vw, e9, e20) ==
    IF is_uptrend_condition(c, vw, e9, e20) /\ long_pullback(c, e9, e20) THEN Stake
    ELSE IF is_downtrend_condition(c, vw, e9, e20) /\ short_pullback(c, e9, e20) THEN -Stake
    ELSE 0

stop_loss_missing(h, c, e20) == FALSE

\* lines 131-136
stop_loss(h, c, e20) == (h > 0 /\ Lt(c, e20)) \/ (h < 0 /\ Gt(c, e20))

trend_break_flipped(h, c, vw, e9, e20) ==
    \/ h > 0 /\ (Lt(c, vw) \/ Gt(e9, e20))
    \/ h < 0 /\ (Gt(c, vw) \/ Lt(e9, e20))

trend_break_both(h, c, vw, e9, e20) ==
    \/ h > 0 /\ (Lt(c, vw) /\ Lt(e9, e20))
    \/ h < 0 /\ (Gt(c, vw) /\ Gt(e9, e20))

\* lines 139-149
trend_break(h, c, vw, e9, e20) ==
    \/ h > 0 /\ (Lt(c, vw) \/ Lt(e9, e20))
    \/ h < 0 /\ (Gt(c, vw) \/ Gt(e9, e20))

\* lines 128-149
exit_signal(h, c, vw, e9, e20) ==
    IF stop_loss(h, c, e20) THEN TRUE ELSE trend_break(h, c, vw, e9, e20)

exit_target_reverse(sig, h) == IF sig THEN -h ELSE h
exit_target_restake(sig, h) == IF sig THEN 0 ELSE IF h > 0 THEN Stake ELSE -Stake

\* lines 152-156
exit_target(sig, h) == IF sig THEN 0 ELSE h

\* line 57
insufficient_target(d, ticker) == 0

Set(path, v) == [kind |-> "set", exc |-> "", v |-> v, path |-> path]
Fail(path, e) == [kind |-> "raise", exc |-> e, v |-> 0, path |-> path]

\* lines 88, 95, 99: read the holding, or fail with KeyError
Hold(path, d, ticker) ==
    IF HoldingsPresent(d) THEN Set(path, HoldingGet(d, ticker)) ELSE Fail(path, "KeyError")

\* lines 37-156: the loop body for one ticker
Evaluate(slf, d, s, ticker) ==
    LET o == ohlcv_of(slf, d, ticker)
        e9 == Latest(s.ema9)
        e20 == Latest(s.ema20)
        vw == Latest(s.vwap)
        c == o.close
        h == HoldingGet(d, ticker)
    IN  IF ~o.isNone /\ ~o.sized THEN Fail("insufficient", "TypeError")
        ELSE IF insufficient(o) THEN Set("insufficient", insufficient_target(d, ticker))
        ELSE IF s.raises # "none" \/ c = NoClose THEN Hold("indicator_error", d, ticker)
        ELSE IF ~values_valid(e9, e20, vw, c) THEN Hold("invalid", d, ticker)
        ELSE IF ~HoldingsPresent(d) THEN Fail("trading", "KeyError")
        ELSE IF ~currently_invested(h) THEN Set("entry", target_stake(c, vw, e9, e20))
        ELSE Set("exit", exit_target(exit_signal(h, c, vw, e9, e20), h))

\* lines 161-162
maintain(alloc, d, ticker) ==
    IF ticker \in DOMAIN alloc THEN alloc ELSE (ticker :> HoldingGet(d, ticker)) @@ alloc

final_allocation_held(slf, d, alloc) ==
    IF slf.tickers # <<>> /\ ~HoldingsPresent(d) THEN Raise("KeyError")
    ELSE Return([t \in {u \in DOMAIN alloc : alloc[u] # 0} |-> alloc[t]])

\* line 166; the default argument data["holdings"].get(ticker, 0) is evaluated
\* for every ticker, whether or not allocation_dict has it
final_allocation(slf, d, alloc) ==
    IF slf.tickers # <<>> /\ ~HoldingsPresent(d) THEN Raise("KeyError")
    ELSE Return([t \in TickerSet(slf) |->
                    IF t \in DOMAIN alloc THEN alloc[t] ELSE HoldingGet(d, t)])

\* lines 36-162: the loop over self.tickers from position i
RECURSIVE Loop(_, _, _, _, _)
Loop(slf, d, s, i, alloc) ==
    IF i > Len(slf.tickers) THEN final_allocation(slf, d, alloc)
    ELSE LET ticker == slf.tickers[i]
             r == Evaluate(slf, d, s, ticker)
         IN  IF r.kind = "raise" THEN Raise(r.exc)
             ELSE Loop(slf, d, s, i + 1,
                       IF r.path \in {"entry", "exit"}
                       THEN maintain((ticker :> r.v) @@ alloc, d, ticker)
                       ELSE (ticker :> r.v) @@ alloc)

\* run(self, data)
run(slf, d, s) == Loop(slf, d, s, 1, EmptyAlloc)

SelfAfterRunPop(slf) == [slf EXCEPT !.tickers = Tail(slf.tickers)]

\* run assigns no attribute of self
SelfAfterRun(slf) == slf

(* ------------------------------------------------------------ step inputs *)
RaisingSvc == {[NoSvc EXCEPT !.raises = w] : w \in {"ema9", "ema20", "vwap"}}

AnsweringSvc ==
    {[raises |-> "none", ema9 |-> RawOf(sh, a), ema20 |-> RawOf(sh, b), vwap |-> RawOf(sh, w)] :
        sh \in {"list", "scalar"}, a \in Vals, b \in Vals, w \in Vals}

\* a step: the bars handed to run and what the indicator service answers on them
Steps ==
    {<<w, NoSvc>> : w \in ShortWindows}
    \cup {<<LongWindow(src, Num(1)), s>> : src \in {"dict", "list"}, s \in RaisingSvc}
    \cup {<<LongWindow(src, NoClose), [NoSvc EXCEPT !.ema9 = ScalarOf(Num(1)), !.ema20 = ScalarOf(Num(1)), !.vwap = ScalarOf(Num(1))]>> :
            src \in {"dict", "list"}}
    \cup {<<LongWindow(src, c), s>> : src \in {"dict", "list"}, c \in Vals, s \in AnsweringSvc}

(* ---------------------------------------------------------------- actions *)
Init ==
    /\ self = InitSelf
    /\ data = EmptyStep
    /\ svc = NoSvc
    /\ result = NoResult
    /\ pc = "idle"
    /\ memo = NoMemo
    /\ ledger = NoLedger

\* the platform calls run with a step input
Call ==
    /\ pc = "idle"
    /\ \E st \in Steps, h \in HoldingsInputs :
          /\ data' = [ohlcv |-> st[1], holdings |-> h]
          /\ svc' = st[2]
    /\ pc' = "running"
    /\ UNCHANGED <<self, result, memo, ledger>>

\* run executes and returns or raises
RunBody ==
    /\ pc = "running"
    /\ result' = run(self, data, svc)
    /\ pc' = IF result'.kind = "raise" THEN "raised" ELSE "returned"
    /\ self' = SelfAfterRun(self)
    /\ UNCHANGED <<data, svc, ledger>>

Run == RunBody /\ UNCHANGED memo

\* the caller consumes the outcome; the next step starts afresh
Finish ==
    /\ pc \in {"returned", "raised"}
    /\ pc' = "idle"
    /\ data' = EmptyStep
    /\ svc' = NoSvc
    /\ result' = NoResult
    /\ UNCHANGED <<self, memo, ledger>>

Next == Call \/ Run \/ Finish

Spec == Init /\ [][Next]_vars

(* ------------------------------------ repeated calls, one of them recorded *)
\* the calls whose outcome an observer may record for a later comparison
ProbeCalls ==
    LET long == [present |-> TRUE, has |-> TRUE, v |-> Stake]
        flat == [present |-> TRUE, has |-> FALSE, v |-> 0]
        ans(a, b, w) == [raises |-> "none", ema9 |-> ScalarOf(Num(a)), ema20 |-> ScalarOf(Num(b)), vwap |-> ScalarOf(Num(w))]
        short == [src |-> "list", entry |-> "bars", n |-> MinBars - 1, close |-> Num(1)]
    IN  {<<[ohlcv |-> short, holdings |-> long], NoSvc>>,
         <<[ohlcv |-> LongWindow("list", Num(1)), holdings |-> long], [NoSvc EXCEPT !.raises = "ema9"]>>,
         <<[ohlcv |-> LongWindow("list", Num(2)), holdings |-> flat], ans(3, 1, 1)>>,
         <<[ohlcv |-> LongWindow("list", Num(2)), holdings |-> long], ans(2, 1, 1)>>}

SameCall == memo.set /\ memo.data = data /\ memo.svc = svc

\* an observer records the input and the outcome of a finished call
Remember ==
    /\ pc \in {"returned", "raised"}
    /\ ~memo.set
    /\ <<data, svc>> \in ProbeCalls
    /\ memo' = [set |-> TRUE, other |-> FALSE, data |-> data, svc |-> svc, result |-> result]
    /\ UNCHANGED <<self, data, svc, result, pc, ledger>>

\* run, with the observer noting calls on other inputs than the recorded one
RunObserved ==
    /\ RunBody
    /\ memo' = IF memo.set /\ ~SameCall THEN [memo EXCEPT !.other = TRUE] ELSE memo

NextRepeat == Call \/ RunObserved \/ Finish \/ Remember

SpecRepeat == Init /\ [][NextRepeat]_vars

(* ---------------------- each emitted target is the next step's holding *)
\* the holdings mapping the platform builds from its ledger
FedHoldings(h) ==
    {[present |-> TRUE, has |-> TRUE, v |-> h]}
    \cup (IF h = 0 THEN {[present |-> TRUE, has |-> FALSE, v |-> 0]} ELSE {})

\* the ledger once the platform has executed the returned target
Executed(l, target) ==
    [holding |-> target, prev |-> l.holding, longs |-> l.longs \/ target > Eps, repeat |-> FALSE]

\* the platform calls run with new bars and the holding from its ledger
CallFed ==
    /\ pc = "idle"
    /\ \E st \in Steps, h \in FedHoldings(ledger.holding) :
          /\ data' = [ohlcv |-> st[1], holdings |-> h]
          /\ svc' = st[2]
    /\ pc' = "running"
    /\ ledger' = [ledger EXCEPT !.repeat = FALSE]
    /\ UNCHANGED <<self, result, memo>>

\* the platform executes the returned target; after a raise nothing is traded
FinishFed ==
    /\ pc \in {"returned", "raised"}
    /\ pc' = "idle"
    /\ data' = EmptyStep
    /\ svc' = NoSvc
    /\ result' = NoResult
    /\ ledger' = IF pc = "returned" THEN Executed(ledger, result.alloc[Tracked])
                 ELSE [ledger EXCEPT !.repeat = FALSE]
    /\ UNCHANGED <<self, memo>>

\* the platform executes the returned target and calls run again on the
\* unchanged bars
Repeat ==
    /\ pc = "returned"
    /\ ~ledger.repeat
    /\ pc' = "running"
    /\ data' = [data EXCEPT !.holdings = [present |-> TRUE, has |-> TRUE, v |-> result.alloc[Tracked]]]
    /\ result' = NoResult
    /\ ledger' = [Executed(ledger, result.alloc[Tracked]) EXCEPT !.repeat = TRUE]
    /\ UNCHANGED <<self, svc, memo>>

NextFeedback == CallFed \/ Run \/ FinishFed \/ Repeat

SpecFeedback == Init /\ [][NextFeedback]_vars

(* ------------------------------------------- the finished call, as seen *)
Returned == pc = "returned"
Done == pc \in {"returned", "raised"}

\* the target run emitted for the tracked instrument
Target == result.alloc[Tracked]

\* the bars run looked at
Window == ohlcv_of(self, data, Tracked)
WindowShort == Window.isNone \/ (Window.sized /\ Window.n < MinBars)
WindowLong == ~Window.isNone /\ Window.sized /\ Window.n >= MinBars

\* the instrument's current holding, 0 when it is unknown
Holding == IF data.holdings.present /\ data.holdings.has THEN data.holdings.v ELSE 0
HoldingKnown == data.holdings.present

Close == Window.close
EmaFast == Latest(svc.ema9)
EmaSlow == Latest(svc.ema20)
Vwap == Latest(svc.vwap)

IndicatorFails == svc.raises # "none" \/ Close = NoClose
AllFinite == IsFinite(EmaFast) /\ IsFinite(EmaSlow) /\ IsFinite(Vwap) /\ IsFinite(Close)

\* at least 50 bars, nothing raised, all four values finite
WellFormed == WindowLong /\ ~IndicatorFails /\ AllFinite

Uptrend == Close.v > Vwap.v /\ EmaFast.v > EmaSlow.v
LongPullback == EmaSlow.v < Close.v /\ Close.v < EmaFast.v
LongStop == Close.v < EmaSlow.v
LongBreak == Close.v < Vwap.v \/ EmaFast.v < EmaSlow.v
ShortStop == Close.v > EmaSlow.v
ShortBreak == Close.v > Vwap.v \/ EmaFast.v > EmaSlow.v
NoExitForDirection ==
    /\ Holding > 0 => ~LongStop /\ ~LongBreak
    /\ Holding < 0 => ~ShortStop /\ ~ShortBreak

(* ----------------------------------------------------------------- claims *)
\* C1: a tracked instrument whose bar window is missing or shorter than 50
\* bars gets a target equal to its current holding (0 when unknown).
C1_InsufficientDataHolds ==
    (Returned /\ WindowShort) => Target = Holding

\* C2: with at least 50 bars, when EMA or VWAP raises or the close of the last
\* bar cannot be read, run returns normally and the target is the holding.
C2_IndicatorFailureHolds ==
    (Done /\ WindowLong /\ IndicatorFails) => (Returned /\ Target = Holding)

\* C3: with at least 50 bars and no exception, if one of ema_fast, ema_slow,
\* vwap, current_close is not a finite number the target is the holding.
C3_NonFiniteHolds ==
    (Returned /\ WindowLong /\ ~IndicatorFails /\ ~AllFinite) => Target = Holding

\* C4: run never raises to its caller, whatever the step input.
C4_NeverRaises == pc # "raised"

\* C5: a well-formed step on a flat instrument with uptrend and long_pullback
\* returns the target +0.10.
C5_LongEntry ==
    (Done /\ WellFormed /\ HoldingKnown /\ Abs(Holding) <= Eps /\ Uptrend /\ LongPullback)
        => (Returned /\ Target = Stake)

C5_Witness ==
    /\ Returned /\ WellFormed /\ HoldingKnown /\ Abs(Holding) <= Eps
    /\ Uptrend /\ LongPullback /\ Target = Stake

\* C6 as stated: a well-formed step with holding > 0 and close < ema_slow
\* returns the target 0.
C6_StopLossAnyLong ==
    (Done /\ WellFormed /\ Holding > 0 /\ LongStop) => (Returned /\ Target = 0)

\* C6 amended: a well-formed step with holding > 1e-9 and close < ema_slow
\* returns the target 0, whatever vwap and ema_fast are.
C6_StopLossInvestedLong ==
    (Done /\ WellFormed /\ Holding > Eps /\ LongStop) => (Returned /\ Target = 0)

\* the stop-loss alone flattens: no trend-break condition holds
C6_Witness ==
    /\ Returned /\ WellFormed /\ Holding > Eps /\ LongStop /\ ~LongBreak /\ Target = 0

\* C7 as stated: a well-formed step with a non-zero holding and no stop-loss
\* and no trend-break for its direction returns the holding unchanged.
C7_MaintainAnyNonZero ==
    (Done /\ WellFormed /\ HoldingKnown /\ Holding # 0 /\ NoExitForDirection)
        => (Returned /\ Target = Holding)

\* C7 amended: a well-formed step with |holding| > 1e-9 and no stop-loss and no
\* trend-break for its direction returns the holding unchanged.
C7_MaintainInvested ==
    (Done /\ WellFormed /\ HoldingKnown /\ Abs(Holding) > Eps /\ NoExitForDirection)
        => (Returned /\ Target = Holding)

\* a position of another size than the stake is kept at its size
C7_Witness ==
    /\ Returned /\ WellFormed /\ Abs(Holding) > Eps /\ Holding # Stake /\ Holding # -Stake
    /\ NoExitForDirection /\ Target = Holding

\* C8: the allocation run returns has exactly the tracked instruments as keys.
C8_FullCoverage ==
    Returned => DOMAIN result.alloc = TickerSet(self)

\* every returning path: insufficient, failure, invalid, entry, exit
C8_Witness ==
    /\ Returned /\ DOMAIN result.alloc = {Tracked}
    /\ Evaluate(self, data, svc, Tracked).path = "insufficient"

C10_LongOnly ==
    (Returned /\ WellFormed) =>
        /\ Abs(Holding) <= Eps => Target # -Stake
        /\ Holding < -Eps => Target = 0

\* the whole of the capital, the largest exposure the platform accepts
One == 10 * Stake

Downtrend == Close.v < Vwap.v /\ EmaFast.v < EmaSlow.v
ShortPullback == EmaFast.v < Close.v /\ Close.v < EmaSlow.v
ExitForDirection ==
    \/ Holding > 0 /\ (LongStop \/ LongBreak)
    \/ Holding < 0 /\ (ShortStop \/ ShortBreak)

\* C11 as stated: every target run emits lies in [-1, 1].
C11_TargetInUnitRange ==
    Returned => (-One <= Target /\ Target <= One)

\* C11 amended: every target run emits is 0, +0.10, -0.10 or the current
\* holding, so it lies in [-1, 1] whenever the current holding does.
C11_TargetInRangeOfHolding ==
    Returned =>
        /\ Target \in {0, Stake, -Stake, Holding}
        /\ Abs(Holding) <= One => (-One <= Target /\ Target <= One)

\* a held position inside the range is echoed
C11_Witness ==
    Returned /\ Abs(Holding) > Eps /\ Abs(Holding) <= One /\ Target = Holding

\* C12 as stated: on a well-formed step with a non-zero holding the target is
\* 0 exactly when an exit condition for the holding's direction holds.
C12_ExitIffAnyNonZero ==
    (Done /\ WellFormed /\ HoldingKnown /\ Holding # 0)
        => (Returned /\ (Target = 0 <=> ExitForDirection))

\* C12 amended: on a well-formed step with |holding| > 1e-9 the target is 0
\* exactly when an exit condition for the holding's direction holds.
C12_ExitIffInvested ==
    (Done /\ WellFormed /\ HoldingKnown /\ Abs(Holding) > Eps)
        => (Returned /\ (Target = 0 <=> ExitForDirection))

\* a short flattened by the trend break alone
C12_Witness ==
    /\ Returned /\ WellFormed /\ Holding < -Eps
    /\ ~ShortStop /\ ShortBreak /\ Target = 0

\* C13: a well-formed step on a flat instrument without uptrend and
\* long_pullback but with downtrend and short_pullback returns -0.10.
C13_ShortEntry ==
    (Done /\ WellFormed /\ HoldingKnown /\ Abs(Holding) <= Eps
        /\ ~(Uptrend /\ LongPullback) /\ Downtrend /\ ShortPullback)
        => (Returned /\ Target = -Stake)

C13_Witness ==
    /\ Returned /\ WellFormed /\ HoldingKnown /\ Abs(Holding) <= Eps
    /\ Downtrend /\ ShortPullback /\ Target = -Stake

\* C14: a well-formed step on a flat instrument with neither entry condition
\* returns 0; a flat instrument gets a non-zero target only on an entry
\* condition.
C14_StayFlat ==
    (Done /\ WellFormed /\ HoldingKnown /\ Abs(Holding) <= Eps)
        => /\ Returned
           /\ (~(Uptrend /\ LongPullback) /\ ~(Downtrend /\ ShortPullback)) => Target = 0
           /\ Target # 0 => ((Uptrend /\ LongPullback) \/ (Downtrend /\ ShortPullback))

\* close above vwap and inside no pullback band: no entry
C14_Witness ==
    /\ Returned /\ WellFormed /\ HoldingKnown /\ Abs(Holding) <= Eps
    /\ Close.v > Vwap.v /\ ~LongPullback /\ ~ShortPullback /\ Target = 0

\* C15 as stated: on every path the target for a non-zero holding is 0 or the
\* holding itself.
C15_ZeroOrHoldingAnyNonZero ==
    (Returned /\ Holding # 0) => Target \in {0, Holding}

\* C15 amended: on every path the target for a holding with |holding| > 1e-9
\* is 0 or the holding itself.
C15_ZeroOrHoldingInvested ==
    (Returned /\ Abs(Holding) > Eps) => Target \in {0, Holding}

\* a short is flattened by an exit, not reversed
C15_Witness ==
    /\ Returned /\ WellFormed /\ Holding = -Stake /\ ExitForDirection /\ Target = 0

OppositeSigns(a, b) == (a > 0 /\ b < 0) \/ (a < 0 /\ b > 0)

\* C16: with each target fed back as the next holding and a flat start, the
\* holding is always 0, +0.10 or -0.10 and never passes from one sign to the
\* other without a step at 0.
C16_FedBackHolding ==
    [][/\ ledger'.holding \in {0, Stake, -Stake}
       /\ ~OppositeSigns(ledger.holding, ledger'.holding)]_vars

\* a short position held after a long one was held earlier
C16_Witness == ledger.holding = -Stake /\ ledger.longs

\* C17: when a flat instrument got an entry on finite values, the next step
\* on the unchanged bars with the entered holding keeps it.
C17_EntryNotExited ==
    (Done /\ ledger.repeat /\ WellFormed /\ ledger.prev = 0 /\ Holding \in {Stake, -Stake})
        => (Returned /\ Target = Holding)

\* the long entry is kept on the repeated step
C17_Witness ==
    /\ Returned /\ ledger.repeat /\ WellFormed /\ ledger.prev = 0
    /\ Holding = Stake /\ Target = Stake

\* the short entry is kept on the repeated step
C17_WitnessShort ==
    /\ Returned /\ ledger.repeat /\ WellFormed /\ ledger.prev = 0
    /\ Holding = -Stake /\ Target = -Stake

====
